---- MODULE Spec2Model ----
(***************************************************************************)
(* Sentinel: the namespace selector monitor (NamespaceWatcher, start.go),  *)
(* the watch lifecycle manager (AppDiscovery, app_discovery.go) and the    *)
(* helpers they call (helpers.go).                                         *)
(*                                                                         *)
(* Go slices are modelled with their backing array: a slice header is a    *)
(* (backing array, len) pair, and a header sent over nsChannel shares the  *)
(* backing array of initialNamespaces until append reallocates it.         *)
(*                                                                         *)
(* The namespace handlers run one at a time on the informer's goroutine:   *)
(* a handler call is one step. AppDiscovery runs on the main goroutine and *)
(* reads the elements of the slice it received without synchronisation:    *)
(* each iteration of its two range loops is one step, so a handler call    *)
(* can fall between two element reads.                                     *)
(***************************************************************************)
EXTENDS Integers, Sequences, FiniteSets, Bags, TLC

\* ------------------------------------------------------------------ bounds

\* Number of namespace changes in the cluster (drift before the informer
\* lists, and add/update/delete events after it).
MaxEvents == 2

\* Length of the image strings the parser is applied to exhaustively.
MaxImageLen == 5

\* Number of workload notifications handed to the handlers of one informer.
MaxDeliveries == 2

\* Number of extraction rules in Config.ExtraLabels.
MaxRules == 2

\* Number of successive rollouts of one workload.
MaxRollouts == 3

\* ---------------------------------------------------------------- universe

Namespaces == {"ns-a", "ns-b"}

Kinds == {"Deployment", "StatefulSet", "DaemonSet"}

LabelKeys == {"k1", "k2"}

LabelValues == {"", "on", "off"}

\* Every label map (and every selector) over LabelKeys and LabelValues.
LabelMaps == UNION {[D -> LabelValues] : D \in SUBSET LabelKeys}

\* The label maps the namespaces of the lifecycle specification take, and
\* the selectors Sentinel is configured with there.
NsLabelMaps == {[k \in {} |-> ""], [k1 |-> "on"]}

Selectors == {[k1 |-> "on"]}

NoLabels == [k \in {} |-> ""]

NoEvent == [ns |-> "none", kind |-> "none", removed |-> FALSE, identity |-> {}]

\* ----------------------------------------------------------------- state

VARIABLES
    selector,       \* Config.NamespaceSelector
    cluster,        \* the namespaces of the cluster: name -> [exists, labels]
    phase,          \* "listed": after start.go:81; "running": informer started; "failed": the List failed
    pendingAdds,    \* namespaces of the informer's list not yet handed to AddFunc
    nEvents,        \* cluster changes so far (bounded by MaxEvents)
    monArr,         \* backing array of initialNamespaces (its length is cap)
    monLen,         \* len(initialNamespaces)
    nsChannel,      \* buffer of the channel make(chan []string, 1)
    pc,             \* position of AppDiscovery's loop
    namespaces,     \* the slice header AppDiscovery received
    idx,            \* index of the range loop in progress
    currentSet,     \* currentSet of AppDiscovery
    activeInformers,\* namespace -> id of its NamespaceInformer
    factories,      \* every NamespaceInformer created so far, by id
    lastCall,       \* history: the last namespace handler call
    lastPublished,  \* history: contents of the last snapshot a handler sent or tried to send
    pass,           \* history: what the reconcile pass in progress (or last) did
    lastEvent,      \* history: the workload event the last step processed, if any
    selIn,          \* input of the selector-matching specification
    selOut,         \* its result
    extraLabels,    \* Config.ExtraLabels
    subscription,   \* namespace (nsCopy) and kind of a workload informer
    store,          \* the workload "web" as that informer's cache holds it
    nDeliveries,    \* notifications handed to its handlers so far
    imageInfo,      \* SentinelContainerImageInfo: the label tuples of its series
    imageChanges,   \* SentinelImageChangesTotal: label tuple -> count (a bag)
    delivery,       \* history: the last notification and what its handler did
    extractIn,      \* input of the extra-label specification
    extractOut,     \* its result
    parseIn,        \* input of the image-parser specification
    parseOut        \* its result

vars == <<selector, cluster, phase, pendingAdds, nEvents, monArr, monLen,
          nsChannel, pc, namespaces, idx, currentSet, activeInformers,
          factories, lastCall, lastPublished, pass, lastEvent, selIn, selOut,
          parseIn, parseOut, extraLabels, subscription,
         store, nDeliveries, imageInfo, imageChanges, delivery,
         extractIn, extractOut>>

monitorVars == <<monArr, monLen, nsChannel, lastCall, lastPublished>>

consumerVars == <<pc, namespaces, idx, currentSet, activeInformers, pass>>

selVars == <<selIn, selOut>>

parseVars == <<parseIn, parseOut>>

detVars == <<extraLabels, subscription, store, nDeliveries, imageInfo,
             imageChanges, delivery>>

extractVars == <<extractIn, extractOut>>

lifecycleVars == <<selector, cluster, phase, pendingAdds, nEvents, monitorVars,
                   consumerVars, factories, lastEvent>>

\* --------------------------------------------------------------- helpers

Range(s) == {s[i] : i \in 1..Len(s)}

\* m[k] of a Go map: the zero value when the key is missing.
GoMapGet(m, k) == IF k \in DOMAIN m THEN m[k] ELSE ""

\* helpers.go: namespaceMatchesSelector. The loop returns false at the first
\* key whose lookup differs from the required value, true otherwise.
namespaceMatchesSelector(ns, sel) ==
    \A key \in DOMAIN sel : GoMapGet(ns.labels, key) = sel[key]

\* The label selector "k1=v1,k2=v2" evaluated by the API server for the
\* initial List: the key is present and carries the value.
ListSelects(labels, sel) ==
    \A key \in DOMAIN sel : key \in DOMAIN labels /\ labels[key] = sel[key]

\* slices.Contains(initialNamespaces, name)
slicesContains(arr, len, name) == \E i \in 1..len : arr[i] = name

\* Capacity append chooses when the backing array is full.
GrowCap(cap) == IF cap = 0 THEN 1 ELSE 2 * cap

\* append(initialNamespaces, name): in place when len < cap, otherwise into a
\* new backing array.
goAppend(arr, len, name) ==
    IF len < Len(arr)
    THEN [arr |-> [arr EXCEPT ![len + 1] = name], len |-> len + 1, realloc |-> FALSE]
    ELSE [arr |-> [i \in 1..GrowCap(Len(arr)) |->
                      IF i <= len THEN arr[i] ELSE IF i = len + 1 THEN name ELSE ""],
          len |-> len + 1, realloc |-> TRUE]

\* helpers.go: slicePurge. append(slice[:i], slice[i+1:]...) shifts the tail
\* one place to the left inside the same backing array.
slicePurge(arr, len, item) ==
    IF slicesContains(arr, len, item)
    THEN LET i == CHOOSE j \in 1..len :
                      arr[j] = item /\ \A k \in 1..(j - 1) : arr[k] # item
         IN  [arr |-> [k \in 1..Len(arr) |->
                          IF k >= i /\ k < len THEN arr[k + 1] ELSE arr[k]],
              len |-> len - 1]
    ELSE [arr |-> arr, len |-> len]

\* A slice header held outside the monitor. live: it shares the monitor's
\* current backing array; otherwise data is its (now unreachable for the
\* monitor) backing array. orig is a history field: the contents when sent.
NilSlice == [len |-> 0, live |-> FALSE, data |-> <<>>, orig |-> <<>>]

Header(arr, len) ==
    [len |-> len, live |-> TRUE, data |-> <<>>, orig |-> SubSeq(arr, 1, len)]

\* namespaces[i] as read now.
Elem(s, i) == IF s.live THEN monArr[i] ELSE s.data[i]

Contents(s) == [i \in 1..s.len |-> Elem(s, i)]

\* The header once the monitor has moved to a new backing array.
Detach(s) == IF s.live THEN [s EXCEPT !.live = FALSE, !.data = monArr] ELSE s

UnboundedSend(ch, hdr) == Append(ch, hdr)

\* select { case nsChannel <- initialNamespaces: default: } on the
\* one-slot buffer.
TrySend(ch, hdr) == IF Len(ch) = 0 THEN <<hdr>> ELSE ch

ScopeList == SubSeq(monArr, 1, monLen)

ScopeSet == Range(ScopeList)

\* ------------------------------------------------------ namespace monitor

NsOrder == <<"ns-a", "ns-b">>

Absent == [exists |-> FALSE, labels |-> NoLabels]

NsStates == {Absent} \cup {[exists |-> TRUE, labels |-> l] : l \in NsLabelMaps}

\* The *v1.Namespace object a handler receives.
NsObject(name, st) == [name |-> name, labels |-> st.labels]

\* start.go:64-76: the names of the listed namespaces appended one by one to
\* the nil slice initialNamespaces (the API server lists them in name order).
RECURSIVE InitialList(_, _, _)
InitialList(c, sel, n) ==
    IF n = 0 THEN [arr |-> <<>>, len |-> 0, realloc |-> FALSE]
    ELSE LET prev == InitialList(c, sel, n - 1)
             name == NsOrder[n]
         IN  IF c[name].exists /\ ListSelects(c[name].labels, sel)
             THEN goAppend(prev.arr, prev.len, name)
             ELSE prev

NoCall == [handler |-> "none", transition |-> FALSE, attempted |-> FALSE, sent |-> FALSE]

\* The monitor's part of a handler call that leaves the scope list at
\* (arr, len), reallocated or not, and then sends it (or not).
MonitorStep(handler, arr, len, realloc, send) ==
    /\ monArr' = arr
    /\ monLen' = len
    /\ nsChannel' =
          LET ch == IF realloc THEN [i \in 1..Len(nsChannel) |-> Detach(nsChannel[i])]
                    ELSE nsChannel
          IN  IF send THEN TrySend(ch, Header(arr, len)) ELSE ch
    /\ namespaces' = IF realloc THEN Detach(namespaces) ELSE namespaces
    /\ lastCall' = [handler |-> handler,
                    transition |-> Range(SubSeq(arr, 1, len)) # ScopeSet,
                    attempted |-> send,
                    sent |-> send /\ Len(nsChannel) = 0]
    /\ lastPublished' = IF send THEN SubSeq(arr, 1, len) ELSE lastPublished

\* start.go:91-110
AddFunc(namespace) ==
    IF /\ ~slicesContains(monArr, monLen, namespace.name)
       /\ namespaceMatchesSelector(namespace, selector)
    THEN LET a == goAppend(monArr, monLen, namespace.name)
         IN  MonitorStep("AddFunc", a.arr, a.len, a.realloc, TRUE)
    ELSE MonitorStep("AddFunc", monArr, monLen, FALSE, FALSE)

\* start.go:114-142
UpdateFunc(oldNs, newNs) ==
    LET oldMatches == namespaceMatchesSelector(oldNs, selector)
        newMatches == namespaceMatchesSelector(newNs, selector)
    IN  IF newMatches /\ ~oldMatches
        THEN LET a == goAppend(monArr, monLen, newNs.name)
             IN  MonitorStep("UpdateFunc", a.arr, a.len, a.realloc, TRUE)
        ELSE IF ~newMatches /\ oldMatches
        THEN LET p == slicePurge(monArr, monLen, newNs.name)
             IN  MonitorStep("UpdateFunc", p.arr, p.len, FALSE, TRUE)
        ELSE MonitorStep("UpdateFunc", monArr, monLen, FALSE, TRUE)

\* start.go:145-159
DeleteFunc(namespace) ==
    IF /\ slicesContains(monArr, monLen, namespace.name)
       /\ namespaceMatchesSelector(namespace, selector)
    THEN LET p == slicePurge(monArr, monLen, namespace.name)
         IN  MonitorStep("DeleteFunc", p.arr, p.len, FALSE, TRUE)
    ELSE MonitorStep("DeleteFunc", monArr, monLen, FALSE, FALSE)

\* The cluster changes between the initial List (start.go:64) and the
\* informer's own List (start.go:165), or after a failed initial List: no
\* handler sees the change.
ClusterDrift ==
    /\ phase \in {"listed", "failed"}
    /\ nEvents < MaxEvents
    /\ \E name \in Namespaces, st \in NsStates :
          /\ st # cluster[name]
          /\ cluster' = [cluster EXCEPT ![name] = st]
    /\ nEvents' = nEvents + 1
    /\ UNCHANGED <<selector, phase, pendingAdds, monitorVars, consumerVars,
                   factories, selVars, parseVars, detVars, extractVars>>
    /\ lastEvent' = NoEvent

\* start.go:163-172 and start.go:40: the informer lists the namespaces and
\* queues one add notification for each; NamespaceWatcher returns and
\* AppDiscovery starts to range over nsChannel.
InformerStart ==
    /\ phase = "listed"
    /\ phase' = "running"
    /\ pendingAdds' = {name \in Namespaces : cluster[name].exists}
    /\ pc' = "recv"
    /\ UNCHANGED <<selector, cluster, nEvents, monitorVars, namespaces, idx,
                   currentSet, activeInformers, pass, factories, selVars, parseVars, detVars, extractVars>>
    /\ lastEvent' = NoEvent

\* An add notification of the informer's initial list reaches AddFunc.
InitialAdd ==
    /\ phase = "running"
    /\ \E name \in pendingAdds :
          /\ AddFunc(NsObject(name, cluster[name]))
          /\ pendingAdds' = pendingAdds \ {name}
    /\ UNCHANGED <<selector, cluster, phase, nEvents, pc, idx, currentSet,
                   activeInformers, pass, factories, selVars, parseVars, detVars, extractVars>>
    /\ lastEvent' = NoEvent

EventsFlow == phase = "running" /\ pendingAdds = {} /\ nEvents < MaxEvents

\* A namespace is created and the informer calls AddFunc.
NsCreated ==
    /\ EventsFlow
    /\ \E name \in Namespaces, l \in NsLabelMaps :
          /\ ~cluster[name].exists
          /\ cluster' = [cluster EXCEPT ![name] = [exists |-> TRUE, labels |-> l]]
          /\ AddFunc(NsObject(name, cluster'[name]))
    /\ nEvents' = nEvents + 1
    /\ UNCHANGED <<selector, phase, pendingAdds, pc, idx, currentSet,
                   activeInformers, pass, factories, selVars, parseVars, detVars, extractVars>>
    /\ lastEvent' = NoEvent

\* A namespace is modified (its labels or anything else) and the informer
\* calls UpdateFunc with the old and the new object.
NsUpdated ==
    /\ EventsFlow
    /\ \E name \in Namespaces, l \in NsLabelMaps :
          /\ cluster[name].exists
          /\ cluster' = [cluster EXCEPT ![name] = [exists |-> TRUE, labels |-> l]]
          /\ UpdateFunc(NsObject(name, cluster[name]), NsObject(name, cluster'[name]))
    /\ nEvents' = nEvents + 1
    /\ UNCHANGED <<selector, phase, pendingAdds, pc, idx, currentSet,
                   activeInformers, pass, factories, selVars, parseVars, detVars, extractVars>>
    /\ lastEvent' = NoEvent

\* A namespace is deleted and the informer calls DeleteFunc with its last
\* state.
NsDeleted ==
    /\ EventsFlow
    /\ \E name \in Namespaces :
          /\ cluster[name].exists
          /\ cluster' = [cluster EXCEPT ![name] = Absent]
          /\ DeleteFunc(NsObject(name, cluster[name]))
    /\ nEvents' = nEvents + 1
    /\ UNCHANGED <<selector, phase, pendingAdds, pc, idx, currentSet,
                   activeInformers, pass, factories, selVars, parseVars, detVars, extractVars>>
    /\ lastEvent' = NoEvent

\* ------------------------------------------------- watch lifecycle manager

\* prev is the snapshot of the pass before, {"-"} when there was none.
\* failed holds the active namespaces whose informers had failed to list
\* when the pass began.
NoPass ==
    [D |-> {}, A |-> {}, started |-> {}, stopped |-> {}, prev |-> {"-"}, n |-> 0,
     failed |-> {}]


ActiveKeys == DOMAIN activeInformers

ReceivesAnywhere(p) == TRUE

\* app_discovery.go:53: the range loop takes the next snapshot only once its
\* body has ended.
AtRangeHead(p) == p = "recv"

\* app_discovery.go:53-55: a snapshot is taken from nsChannel.
Recv ==
    /\ AtRangeHead(pc)
    /\ Len(nsChannel) = 1
    /\ namespaces' = nsChannel[1]
    /\ nsChannel' = <<>>
    /\ currentSet' = {}
    /\ idx' = 1
    /\ pc' = IF nsChannel[1].len = 0 THEN "stop" ELSE "build"
    /\ pass' = [D |-> Range(Contents(nsChannel[1])), A |-> ActiveKeys,
                started |-> {}, stopped |-> {},
                prev |-> IF pass.n = 0 THEN {"-"} ELSE pass.D,
                n |-> 1,
                failed |-> {ns \in ActiveKeys : factories[activeInformers[ns]].listFailed}]
    /\ UNCHANGED <<selector, cluster, phase, pendingAdds, nEvents, monArr, monLen,
                   activeInformers, factories, lastCall, lastPublished,
                   selVars, parseVars, detVars, extractVars>>
    /\ lastEvent' = NoEvent

\* app_discovery.go:57-60: one iteration of the loop that fills currentSet.
BuildStep ==
    /\ pc = "build"
    /\ currentSet' = currentSet \cup {Elem(namespaces, idx)}
    /\ IF idx = namespaces.len
       THEN pc' = "start" /\ idx' = 1
       ELSE pc' = pc /\ idx' = idx + 1
    /\ UNCHANGED <<selector, cluster, phase, pendingAdds, nEvents, monitorVars,
                   namespaces, activeInformers, pass, factories, selVars, parseVars, detVars, extractVars>>
    /\ lastEvent' = NoEvent

\* app_discovery.go:68-184: a NamespaceInformer for ns: a stop channel, a
\* factory with one informer per kind, started.
\* listFailed: the List call of its informers failed.
\* ns is the namespace of the factory (informers.WithNamespace(ns)), nsCopy
\* the variable its handlers refer to (nsCopy := ns).
NewInformer(ns) ==
    [ns |-> ns, nsCopy |-> ns, closed |-> 0, live |-> Kinds, listFailed |-> FALSE]

AlwaysStart(ns, active) == TRUE

\* app_discovery.go:65: _, exists := activeInformers[ns]; !exists
NotActive(ns, active) == ns \notin active

\* app_discovery.go:64-186: one iteration of the loop that starts informers.
StartStep ==
    /\ pc = "start"
    /\ LET ns == Elem(namespaces, idx)
       IN  IF NotActive(ns, ActiveKeys)
           THEN /\ factories' = Append(factories, NewInformer(ns))
                /\ activeInformers' =
                      [k \in ActiveKeys \cup {ns} |->
                          IF k = ns THEN Len(factories) + 1 ELSE activeInformers[k]]
                /\ pass' = [pass EXCEPT !.started = @ \cup {ns}]
           ELSE UNCHANGED <<factories, activeInformers, pass>>
    /\ IF idx = namespaces.len
       THEN pc' = "stop" /\ idx' = 1
       ELSE pc' = pc /\ idx' = idx + 1
    /\ UNCHANGED <<selector, cluster, phase, pendingAdds, nEvents, monitorVars,
                   namespaces, currentSet, selVars, parseVars, detVars, extractVars>>
    /\ lastEvent' = NoEvent

KeepStopCh(f) == f

\* close(informer.StopCh)
CloseStopCh(f) == [f EXCEPT !.closed = @ + 1]

AllActive(active, current) == active

\* app_discovery.go:189-190: the active namespaces absent from currentSet.
StaleNamespaces(active, current) == {ns \in active : ns \notin current}

\* app_discovery.go:188-196: the loop that stops the informers of the
\* namespaces absent from currentSet, and the end of the pass.
StopStep ==
    /\ pc = "stop"
    /\ LET gone == StaleNamespaces(ActiveKeys, currentSet)
           ids == {activeInformers[ns] : ns \in gone}
       IN  /\ factories' = [i \in 1..Len(factories) |->
                               IF i \in ids THEN CloseStopCh(factories[i])
                               ELSE factories[i]]
           /\ activeInformers' = [k \in ActiveKeys \ gone |-> activeInformers[k]]
           /\ pass' = [pass EXCEPT !.stopped = gone]
    /\ pc' = "recv"
    /\ namespaces' = NilSlice
    /\ idx' = 1
    /\ currentSet' = {}
    /\ UNCHANGED <<selector, cluster, phase, pendingAdds, nEvents, monitorVars,
                   selVars, parseVars, detVars, extractVars>>
    /\ lastEvent' = NoEvent

\* An informer started by factory.Start(stopCh) (app_discovery.go:180) sees
\* its stop channel closed and ends. Nothing waits for it.
InformerExit ==
    /\ \E i \in 1..Len(factories), kind \in Kinds :
          /\ factories[i].closed > 0
          /\ kind \in factories[i].live
          /\ factories' = [factories EXCEPT ![i].live = @ \ {kind}]
    /\ UNCHANGED <<selector, cluster, phase, pendingAdds, nEvents, monitorVars,
                   consumerVars, selVars, parseVars, detVars, extractVars>>
    /\ lastEvent' = NoEvent

\* The informers started by factory.Start(stopCh) (app_discovery.go:180)
\* cannot list the workloads of their namespace: the API server is
\* unreachable or refuses. Nothing in AppDiscovery is told.
InformerListFails ==
    /\ \E i \in 1..Len(factories) :
          /\ factories[i].closed = 0
          /\ ~factories[i].listFailed
          /\ factories' = [factories EXCEPT ![i].listFailed = TRUE]
    /\ UNCHANGED <<selector, cluster, phase, pendingAdds, nEvents, monitorVars,
                   consumerVars, selVars, parseVars, detVars, extractVars>>
    /\ lastEvent' = NoEvent

\* ------------------------------------------------------- image parser

\* An image string is a sequence of tokens: the separators ".", ":" and "/"
\* and words without separators in them ("localhost" is the word the parser
\* compares with).
ImageTokens == {"app", "5000", ".", ":", "/", "localhost"}

RECURSIVE TokenSeqs(_)
TokenSeqs(n) ==
    IF n = 0 THEN {<<>>}
    ELSE LET shorter == TokenSeqs(n - 1)
         IN  shorter \cup {Append(t, c) : t \in shorter, c \in ImageTokens}

\* Image strings with a registry, a repository path and a tag, or without
\* the registry, or without the tag.
ImageRegistries ==
    {<<"localhost">>, <<"localhost", ":", "5000">>, <<"ghcr", ".", "io">>,
     <<"registry", ":", "5000">>}

ImageRepositories == {<<"app">>, <<"org", "/", "app">>, <<"library", "/", "nginx">>}

ImageTags == {<<"v1">>, <<"1", ".", "28">>, <<"latest">>}

BuiltImages ==
    LET paths == ImageRepositories \cup
                 {reg \o <<"/">> \o repo : reg \in ImageRegistries, repo \in ImageRepositories}
    IN  paths \cup {path \o <<":">> \o tag : path \in paths, tag \in ImageTags}

\* strings.Contains(s, sep) for a separator
stringsContains(s, sep) == \E i \in 1..Len(s) : s[i] = sep

\* strings.SplitN(s, sep, 2): s cut at the first separator, or s alone.
stringsSplitN2(s, sep) ==
    IF stringsContains(s, sep)
    THEN LET i == CHOOSE j \in 1..Len(s) :
                      s[j] = sep /\ \A k \in 1..(j - 1) : s[k] # sep
         IN  <<SubSeq(s, 1, i - 1), SubSeq(s, i + 1, Len(s))>>
    ELSE <<s>>

\* helpers.go: parseImage
parseImage(image) ==
    LET parts == stringsSplitN2(image, ":")
        imagePath == parts[1]
        tag == IF Len(parts) = 2 THEN parts[2] ELSE <<"latest">>
        pathParts == stringsSplitN2(imagePath, "/")
    IN  IF Len(pathParts) = 1
        THEN [registry |-> <<"docker", ".", "io">>, repository |-> pathParts[1], tag |-> tag]
        ELSE IF \/ stringsContains(pathParts[1], ".")
                \/ stringsContains(pathParts[1], ":")
                \/ pathParts[1] = <<"localhost">>
        THEN [registry |-> pathParts[1], repository |-> pathParts[2], tag |-> tag]
        ELSE [registry |-> <<"docker", ".", "io">>, repository |-> imagePath, tag |-> tag]

NoParse == [done |-> FALSE, registry |-> <<>>, repository |-> <<>>, tag |-> <<>>]

\* ---------------------------------------------------- workload handlers

\* The workload objects an informer hands to its handlers: the workload
\* "web" with the containers of its pod template, its metadata, its
\* generation and its resource version.
ContainerNames == {"a", "b"}

DetectImages ==
    {<<"img", ":", "1">>, <<"img", ":", "2">>,
     <<"reg", ".", "io", "/", "img", ":", "1">>}

Containers == [name : ContainerNames, image : DetectImages]

\* Container lists: the API server admits no two containers of one name.
\* Container a takes every image, container b the two tags of one image.
ContainerLists ==
    LET as == {c \in Containers : c.name = "a"}
        bs == {c \in Containers : c.name = "b" /\ ~stringsContains(c.image, "/")}
    IN  {<<>>} \cup {<<c>> : c \in as \cup bs} \cup {<<c, d>> : c \in as, d \in bs}

WorkloadMeta ==
    {[labels |-> NoLabels, annotations |-> NoLabels],
     [labels |-> [team |-> "core"], annotations |-> [owner |-> "ops"]]}

ExtraLabelConfigs ==
    {<<>>,
     <<[Type |-> "label", Key |-> "team", TimeseriesLabelName |-> "team"],
       [Type |-> "annotation", Key |-> "owner", TimeseriesLabelName |-> "owner"],
       [Type |-> "env", Key |-> "team", TimeseriesLabelName |-> "env_team"]>>}

NoWorkload ==
    [exists |-> FALSE, name |-> "web", generation |-> 0, resourceVersion |-> 0,
     containers |-> <<>>, labels |-> NoLabels, annotations |-> NoLabels]

Workload(generation, resourceVersion, containers, meta) ==
    [exists |-> TRUE, name |-> "web", generation |-> generation,
     resourceVersion |-> resourceVersion, containers |-> containers,
     labels |-> meta.labels, annotations |-> meta.annotations]

NoSubscription == [ns |-> "none", kind |-> "none"]

NoDelivery ==
    [handler |-> "none", synthetic |-> FALSE, old |-> NoWorkload, new |-> NoWorkload,
     log |-> <<>>, retracted |-> {}, recounted |-> {}, added |-> EmptyBag]

\* The two metric vectors as a handler sees them, and the calls it makes on
\* them in order.
Metrics == [info |-> imageInfo, changes |-> imageChanges, log |-> <<>>]

BuildMetricsBaseOnly(labels) ==
    <<"workload_namespace", "workload_type", "workload_name", "container_name",
      "image", "image_registry", "image_repository", "image_tag">>

\* BuildMetrics: the label names SentinelContainerImageInfo is registered
\* with, the base labels followed by the names of the configured rules.
BuildMetrics(labels) ==
    <<"workload_namespace", "workload_type", "workload_name", "container_name",
      "image", "image_registry", "image_repository", "image_tag">>
    \o [k \in 1..Len(labels) |-> labels[k].TimeseriesLabelName]

extractFromLabelsOnly(obj, extractors) ==
    [i \in 1..Len(extractors) |-> GoMapGet(obj.labels, extractors[i].Key)]

\* helpers.go: extractExtraLabelValues
extractExtraLabelValues(obj, extractors) ==
    [i \in 1..Len(extractors) |->
        CASE extractors[i].Type = "annotation" -> GoMapGet(obj.annotations, extractors[i].Key)
          [] extractors[i].Type = "label" -> GoMapGet(obj.labels, extractors[i].Key)
          [] OTHER -> ""]

\* The arguments extractExtraLabelValues is applied to on its own: label and
\* annotation maps with a key present (with a value or with ""), or absent,
\* and rule lists with the two source types and an unknown one.
ExtractKeys == {"team", "owner"}

ExtractValues == {"", "core"}

MetaMaps == UNION {[D -> ExtractValues] : D \in SUBSET ExtractKeys}

ExtractRules == [Type : {"annotation", "label", "env"}, Key : ExtractKeys]

RECURSIVE RuleLists(_)
RuleLists(n) ==
    IF n = 0 THEN {<<>>}
    ELSE LET shorter == RuleLists(n - 1)
         IN  shorter \cup {Append(l, r) : l \in shorter, r \in ExtractRules}

NoExtract == [labels |-> NoLabels, annotations |-> NoLabels, rules |-> <<>>]

NoValues == [done |-> FALSE, values |-> <<>>]

setContainerMetricLatest(m, workloadType, namespace, workloadName, container, extraLabelValues) ==
    LET p == parseImage(container.image)
        labelValues == <<namespace, workloadType, workloadName, container.name,
                         container.image, p.registry, p.repository, <<"latest">>>>
                       \o extraLabelValues
    IN  [m EXCEPT !.info = @ \cup {labelValues},
                  !.log = Append(@, [metric |-> "sentinel_container_image_info",
                                     labels |-> labelValues])]

\* app_discovery.go: setContainerMetric
setContainerMetric(m, workloadType, namespace, workloadName, container, extraLabelValues) ==
    LET p == parseImage(container.image)
        labelValues == <<namespace, workloadType, workloadName, container.name,
                         container.image, p.registry, p.repository, p.tag>>
                       \o extraLabelValues
    IN  [m EXCEPT !.info = @ \cup {labelValues},
                  !.log = Append(@, [metric |-> "sentinel_container_image_info",
                                     labels |-> labelValues])]

\* The loop of handleWorkloadAdd over containers, from index i on.
RECURSIVE AddLoop(_, _, _, _, _, _, _)
AddLoop(m, resourceType, namespace, name, containers, extraLabelValues, i) ==
    IF i > Len(containers) THEN m
    ELSE AddLoop(setContainerMetric(m, resourceType, namespace, name,
                                    containers[i], extraLabelValues),
                 resourceType, namespace, name, containers, extraLabelValues, i + 1)

handleWorkloadAddFromSecond(m, resourceType, namespace, workload, containers, extractors) ==
    AddLoop(m, resourceType, namespace, workload.name, containers,
            extractExtraLabelValues(workload, extractors), 2)

\* app_discovery.go: handleWorkloadAdd
handleWorkloadAdd(m, resourceType, namespace, workload, containers, extractors) ==
    AddLoop(m, resourceType, namespace, workload.name, containers,
            extractExtraLabelValues(workload, extractors), 1)

\* oldImages of handleWorkloadUpdate: container name -> image, a later
\* container of the same name overwriting an earlier one.
BuildOldImages(oldContainers) ==
    [n \in {oldContainers[i].name : i \in 1..Len(oldContainers)} |->
        LET last == CHOOSE i \in 1..Len(oldContainers) :
                        /\ oldContainers[i].name = n
                        /\ \A j \in (i + 1)..Len(oldContainers) : oldContainers[j].name # n
        IN  oldContainers[last].image]

imageExisted(oldImages, newContainer) == newContainer.name \in DOMAIN oldImages

\* The test "existed && oldImage != newContainer.Image"
imageChanged(oldImages, newContainer) ==
    /\ newContainer.name \in DOMAIN oldImages
    /\ oldImages[newContainer.name] # newContainer.image

IncImageChangeOnce(m, labelValues) ==
    IF BagIn(labelValues, m.changes) THEN m
    ELSE [m EXCEPT !.changes = @ (+) SetToBag({labelValues}),
                   !.log = Append(@, [metric |-> "sentinel_image_changes_total",
                                      labels |-> labelValues])]

\* SentinelImageChangesTotal.WithLabelValues(...).Inc()
IncImageChange(m, labelValues) ==
    [m EXCEPT !.changes = @ (+) SetToBag({labelValues}),
              !.log = Append(@, [metric |-> "sentinel_image_changes_total",
                                 labels |-> labelValues])]

\* The loop of handleWorkloadUpdate over newContainers, from index i on.
RECURSIVE UpdateLoop(_, _, _, _, _, _, _, _)
UpdateLoop(m, resourceType, namespace, name, newContainers, oldImages, extraLabelValues, i) ==
    IF i > Len(newContainers) THEN m
    ELSE LET newContainer == newContainers[i]
             set == setContainerMetric(m, resourceType, namespace, name,
                                       newContainer, extraLabelValues)
             after ==
                 IF imageChanged(oldImages, newContainer)
                 THEN LET oldTag == parseImage(GoMapGet(oldImages, newContainer.name)).tag
                          newTag == parseImage(newContainer.image).tag
                      IN  IncImageChange(set, <<namespace, resourceType, name,
                                                newContainer.name, oldTag, newTag>>)
                 ELSE set
         IN  UpdateLoop(after, resourceType, namespace, name, newContainers,
                        oldImages, extraLabelValues, i + 1)

generationNotDecreased(oldGen, newGen) == newGen >= oldGen

\* The test "newGen > oldGen"
generationIncreased(oldGen, newGen) == newGen > oldGen

\* app_discovery.go: handleWorkloadUpdate
handleWorkloadUpdate(m, resourceType, namespace, newWorkload, oldGen, newGen, newContainers, oldContainers, extractors) ==
    IF generationIncreased(oldGen, newGen)
    THEN UpdateLoop(m, resourceType, namespace, newWorkload.name, newContainers,
                    BuildOldImages(oldContainers),
                    extractExtraLabelValues(newWorkload, extractors), 1)
    ELSE m

handleWorkloadDeleteRetracts(m, resourceType, namespace, name, containers) ==
    [m EXCEPT !.info = {l \in @ : <<l[1], l[2], l[3]>> # <<namespace, resourceType, name>>}]

\* app_discovery.go: handleWorkloadDelete
handleWorkloadDelete(m, resourceType, namespace, name, containers) == m

\* The handlers registered on the three informers of a namespace.
DeploymentAddFunc(m, nsCopy, deploy) ==
    handleWorkloadAdd(m, "Deployment", nsCopy, deploy, deploy.containers, extraLabels)

DeploymentUpdateFunc(m, nsCopy, oldDeploy, newDeploy) ==
    IF oldDeploy.resourceVersion = newDeploy.resourceVersion
    THEN m
    ELSE handleWorkloadUpdate(m, "Deployment", nsCopy, newDeploy, oldDeploy.generation,
                              newDeploy.generation, newDeploy.containers,
                              oldDeploy.containers, extraLabels)

DeploymentDeleteFunc(m, nsCopy, deploy) ==
    handleWorkloadDelete(m, "Deployment", nsCopy, deploy.name, deploy.containers)

StatefulSetAddFunc(m, nsCopy, statefulset) ==
    handleWorkloadAdd(m, "StatefulSet", nsCopy, statefulset, statefulset.containers,
                      extraLabels)

StatefulSetUpdateFunc(m, nsCopy, oldStatefulSet, newStatefulSet) ==
    IF oldStatefulSet.resourceVersion = newStatefulSet.resourceVersion
    THEN m
    ELSE handleWorkloadUpdate(m, "StatefulSet", nsCopy, newStatefulSet,
                              oldStatefulSet.generation, newStatefulSet.generation,
                              newStatefulSet.containers, oldStatefulSet.containers,
                              extraLabels)

StatefulSetDeleteFunc(m, nsCopy, statefulset) ==
    handleWorkloadDelete(m, "StatefulSet", nsCopy, statefulset.name,
                         statefulset.containers)

DaemonSetAddFunc(m, nsCopy, daemonset) ==
    handleWorkloadAdd(m, "DaemonSet", nsCopy, daemonset, daemonset.containers, extraLabels)

DaemonSetUpdateFuncNoSkip(m, nsCopy, oldDaemonSet, newDaemonSet) ==
    handleWorkloadUpdate(m, "DaemonSet", nsCopy, newDaemonSet, oldDaemonSet.generation,
                         newDaemonSet.generation, newDaemonSet.containers,
                         oldDaemonSet.containers, extraLabels)

DaemonSetUpdateFunc(m, nsCopy, oldDaemonSet, newDaemonSet) ==
    IF oldDaemonSet.resourceVersion = newDaemonSet.resourceVersion
    THEN m
    ELSE handleWorkloadUpdate(m, "DaemonSet", nsCopy, newDaemonSet,
                              oldDaemonSet.generation, newDaemonSet.generation,
                              newDaemonSet.containers, oldDaemonSet.containers,
                              extraLabels)

DaemonSetDeleteFunc(m, nsCopy, daemonset) ==
    handleWorkloadDelete(m, "DaemonSet", nsCopy, daemonset.name, daemonset.containers)

\* A notification reaches the handler its informer registered for it.
\* The AddFunc and the UpdateFunc registered on the informer of a kind by
\* the iteration whose nsCopy is given.
AddFuncOf(kind, nsCopy, m, obj) ==
    CASE kind = "Deployment" -> DeploymentAddFunc(m, nsCopy, obj)
      [] kind = "StatefulSet" -> StatefulSetAddFunc(m, nsCopy, obj)
      [] kind = "DaemonSet" -> DaemonSetAddFunc(m, nsCopy, obj)

UpdateFuncOf(kind, nsCopy, m, old, new) ==
    CASE kind = "Deployment" -> DeploymentUpdateFunc(m, nsCopy, old, new)
      [] kind = "StatefulSet" -> StatefulSetUpdateFunc(m, nsCopy, old, new)
      [] kind = "DaemonSet" -> DaemonSetUpdateFunc(m, nsCopy, old, new)

OnAdd(m, obj) == AddFuncOf(subscription.kind, subscription.ns, m, obj)

OnUpdate(m, old, new) == UpdateFuncOf(subscription.kind, subscription.ns, m, old, new)

OnDelete(m, obj) ==
    CASE subscription.kind = "Deployment" -> DeploymentDeleteFunc(m, subscription.ns, obj)
      [] subscription.kind = "StatefulSet" -> StatefulSetDeleteFunc(m, subscription.ns, obj)
      [] subscription.kind = "DaemonSet" -> DaemonSetDeleteFunc(m, subscription.ns, obj)

\* The workload of the notifications of the lifecycle specification: one
\* container whose image goes from tag 1 to tag 2.
SampleOld ==
    Workload(1, 1, <<[name |-> "a", image |-> <<"img", ":", "1">>]>>,
             [labels |-> NoLabels, annotations |-> NoLabels])

SampleNew ==
    Workload(2, 2, <<[name |-> "a", image |-> <<"img", ":", "2">>]>>,
             [labels |-> NoLabels, annotations |-> NoLabels])

\* The namespace and the kind in the label values of the calls of a log.
Identities(log) == {<<log[k].labels[1], log[k].labels[2]>> : k \in 1..Len(log)}

LatestNamespace(i) == factories[Len(factories)].nsCopy

\* The namespace the handlers of NamespaceInformer i pass on: the nsCopy of
\* the iteration that registered them (app_discovery.go:74).
HandlerNamespace(i) == factories[i].nsCopy

\* An informer of a started factory hands a workload event of its namespace
\* to its handler (app_discovery.go:88-179), which processes it: a rollout
\* of the workload, which makes the handler observe the container and count
\* an image change.
WorkloadEvent ==
    /\ \E i \in 1..Len(factories), kind \in Kinds :
          /\ kind \in factories[i].live
          /\ lastEvent' =
                [ns |-> factories[i].ns, kind |-> kind,
                 removed |-> factories[i].ns \notin ActiveKeys,
                 identity |->
                    Identities(UpdateFuncOf(kind, HandlerNamespace(i), Metrics,
                                            SampleOld, SampleNew).log)]
          /\ lastEvent' # lastEvent
    /\ UNCHANGED <<selector, cluster, phase, pendingAdds, nEvents, monitorVars,
                   consumerVars, factories, selVars, parseVars, detVars, extractVars>>

\* The handler has returned m: the metric vectors take its state and the
\* history records the call.
Delivered(handler, synthetic, old, new, m) ==
    /\ imageInfo' = m.info
    /\ imageChanges' = m.changes
    /\ nDeliveries' = nDeliveries + 1
    /\ delivery' =
          [handler |-> handler, synthetic |-> synthetic, old |-> old, new |-> new,
           log |-> m.log,
           retracted |-> imageInfo \ m.info,
           recounted |-> {k \in BagToSet(imageChanges) \cup BagToSet(m.changes) :
                             CopiesIn(k, imageChanges) # CopiesIn(k, m.changes)},
           added |-> m.changes (-) imageChanges]
    /\ UNCHANGED <<extraLabels, subscription, lifecycleVars, selVars, parseVars, extractVars>>

NewObjects ==
    {Workload(1, 1, cs, meta) : cs \in ContainerLists, meta \in WorkloadMeta}

\* The informer's initial list holds the workload: it is handed to AddFunc
\* before any other notification.
SyncAdd ==
    /\ nDeliveries = 0
    /\ \E obj \in NewObjects :
          /\ store' = obj
          /\ Delivered("add", TRUE, NoWorkload, obj, OnAdd(Metrics, obj))

\* The workload is created while the informer runs.
WorkloadAdded ==
    /\ ~store.exists
    /\ nDeliveries < MaxDeliveries
    /\ \E obj \in NewObjects :
          LET created == [obj EXCEPT !.resourceVersion = store.resourceVersion + 1]
          IN  /\ store' = created
              /\ Delivered("add", FALSE, NoWorkload, created, OnAdd(Metrics, created))

\* The revisions an update can bring: other containers, or other metadata.
Revisions(obj) ==
    {[obj EXCEPT !.containers = cs] : cs \in ContainerLists} \cup
    {[obj EXCEPT !.labels = meta.labels, !.annotations = meta.annotations] :
        meta \in WorkloadMeta}

\* The informer hands an update of the workload to UpdateFunc: a new
\* revision, a status-only revision or (on a resync) the resource version
\* it already has.
WorkloadUpdated ==
    /\ store.exists
    /\ nDeliveries < MaxDeliveries
    /\ \E rev \in Revisions(store),
          gen \in {store.generation, store.generation + 1},
          rv \in {store.resourceVersion, store.resourceVersion + 1} :
          LET new == [rev EXCEPT !.generation = gen, !.resourceVersion = rv]
          IN  /\ store' = new
              /\ Delivered("update", FALSE, store, new, OnUpdate(Metrics, store, new))

\* A rollout: the pod template of the workload gets other images for the
\* same containers, which makes a new generation and a new resource version.
Rollout ==
    /\ store.exists
    /\ nDeliveries <= MaxRollouts
    /\ \E cs \in ContainerLists :
          /\ Len(cs) = Len(store.containers)
          /\ \A i \in 1..Len(cs) : cs[i].name = store.containers[i].name
          /\ cs # store.containers
          /\ LET new == [store EXCEPT !.containers = cs,
                                      !.generation = @ + 1,
                                      !.resourceVersion = @ + 1]
             IN  /\ store' = new
                 /\ Delivered("update", FALSE, store, new, OnUpdate(Metrics, store, new))

\* The workload is deleted: the informer hands its last state to DeleteFunc.
WorkloadDeleted ==
    /\ store.exists
    /\ nDeliveries < MaxDeliveries
    /\ store' = [NoWorkload EXCEPT !.resourceVersion = store.resourceVersion]
    /\ Delivered("delete", FALSE, store, store, OnDelete(Metrics, store))

\* ------------------------------------------------------------ specification

EmptySnapshotChannel == <<Header(<<>>, 0)>>

\* start.go:68-71: the initial List fails and NamespaceWatcher returns nil.
\* Start hands the nil channel to AppDiscovery (start.go:39-40), whose range
\* over it (app_discovery.go:53) blocks for ever: nothing is in it and
\* nothing can be sent on it.
NilChannel == <<>>

NoSel == [labels |-> NoLabels, sel |-> NoLabels]

NoResult == [done |-> FALSE, match |-> FALSE]

Init ==
    /\ selector \in Selectors
    /\ cluster \in [Namespaces -> NsStates]
    /\ pendingAdds = {}
    /\ nEvents = 0
    /\ \/ /\ phase = "listed"
          /\ LET l == InitialList(cluster, selector, Len(NsOrder))
             IN  /\ monArr = l.arr
                 /\ monLen = l.len
                 /\ nsChannel = <<Header(l.arr, l.len)>>
                 /\ lastPublished = SubSeq(l.arr, 1, l.len)
          /\ pc = "init"
       \/ /\ phase = "failed"
          /\ monArr = <<>>
          /\ monLen = 0
          /\ nsChannel = NilChannel
          /\ lastPublished = <<>>
          /\ pc = "recv"
    /\ namespaces = NilSlice
    /\ idx = 1
    /\ currentSet = {}
    /\ activeInformers = [k \in {} |-> 0]
    /\ factories = <<>>
    /\ lastCall = NoCall
    /\ pass = NoPass
    /\ lastEvent = NoEvent
    /\ selIn = NoSel
    /\ selOut = NoResult
    /\ parseIn = <<>>
    /\ parseOut = NoParse
    /\ extraLabels = <<>>
    /\ subscription = NoSubscription
    /\ store = NoWorkload
    /\ nDeliveries = 0
    /\ imageInfo = {}
    /\ imageChanges = EmptyBag
    /\ delivery = NoDelivery
    /\ extractIn = NoExtract
    /\ extractOut = NoValues

\* The steps of the namespace monitor, of AppDiscovery and of the informers
\* it starts and stops.
Lifecycle ==
    \/ ClusterDrift
    \/ InformerStart
    \/ InitialAdd
    \/ NsCreated
    \/ NsUpdated
    \/ NsDeleted
    \/ Recv
    \/ BuildStep
    \/ StartStep
    \/ StopStep
    \/ InformerExit

Next ==
    \/ Lifecycle
    \/ WorkloadEvent

Spec == Init /\ [][Next]_vars

\* The goroutines of the program are scheduled: the namespace informer
\* (started at start.go:165) delivers its initial list, AppDiscovery's loop
\* (the main goroutine) advances, and an informer whose stop channel is
\* closed ends. Nothing makes the cluster change or a workload event arrive.
Scheduled ==
    \/ InformerStart
    \/ InitialAdd
    \/ Recv
    \/ BuildStep
    \/ StartStep
    \/ StopStep
    \/ InformerExit

\* Some goroutine that can run does run.
Fairness == WF_vars(Scheduled)

\* Workload events change nothing the monitor, AppDiscovery or the informers'
\* ends depend on: the liveness specification leaves them out.
SpecLive == Init /\ [][Lifecycle]_vars /\ Fairness

\* The lifecycle with informers that fail to list.
NextFail ==
    \/ Next
    \/ InformerListFails

SpecFail == Init /\ [][NextFail]_vars

\* The selector specification: namespaceMatchesSelector applied to every
\* namespace label map and every selector over LabelKeys and LabelValues.
InitSel ==
    /\ selIn \in [labels : LabelMaps, sel : LabelMaps]
    /\ selOut = NoResult
    /\ parseIn = <<>>
    /\ parseOut = NoParse
    /\ extraLabels = <<>>
    /\ subscription = NoSubscription
    /\ store = NoWorkload
    /\ nDeliveries = 0
    /\ imageInfo = {}
    /\ imageChanges = EmptyBag
    /\ delivery = NoDelivery
    /\ extractIn = NoExtract
    /\ extractOut = NoValues
    /\ selector = NoLabels
    /\ cluster = [name \in Namespaces |-> Absent]
    /\ phase = "listed"
    /\ pendingAdds = {}
    /\ nEvents = 0
    /\ monArr = <<>>
    /\ monLen = 0
    /\ nsChannel = <<>>
    /\ lastPublished = <<>>
    /\ pc = "init"
    /\ namespaces = NilSlice
    /\ idx = 1
    /\ currentSet = {}
    /\ activeInformers = [k \in {} |-> 0]
    /\ factories = <<>>
    /\ lastCall = NoCall
    /\ pass = NoPass
    /\ lastEvent = NoEvent

ApplySelector ==
    /\ ~selOut.done
    /\ selOut' = [done |-> TRUE,
                  match |-> namespaceMatchesSelector(
                                [name |-> "ns-a", labels |-> selIn.labels], selIn.sel)]
    /\ UNCHANGED <<selector, cluster, phase, pendingAdds, nEvents, monitorVars,
                   consumerVars, factories, lastEvent, selIn, parseVars, detVars, extractVars>>

SpecSel == InitSel /\ [][ApplySelector]_vars

\* The parser specification: parseImage applied to every token sequence of
\* at most MaxImageLen tokens and to every built image string.
InitParse ==
    /\ parseIn \in TokenSeqs(MaxImageLen) \cup BuiltImages
    /\ parseOut = NoParse
    /\ extraLabels = <<>>
    /\ subscription = NoSubscription
    /\ store = NoWorkload
    /\ nDeliveries = 0
    /\ imageInfo = {}
    /\ imageChanges = EmptyBag
    /\ delivery = NoDelivery
    /\ extractIn = NoExtract
    /\ extractOut = NoValues
    /\ selIn = NoSel
    /\ selOut = NoResult
    /\ selector = NoLabels
    /\ cluster = [name \in Namespaces |-> Absent]
    /\ phase = "listed"
    /\ pendingAdds = {}
    /\ nEvents = 0
    /\ monArr = <<>>
    /\ monLen = 0
    /\ nsChannel = <<>>
    /\ lastPublished = <<>>
    /\ pc = "init"
    /\ namespaces = NilSlice
    /\ idx = 1
    /\ currentSet = {}
    /\ activeInformers = [k \in {} |-> 0]
    /\ factories = <<>>
    /\ lastCall = NoCall
    /\ pass = NoPass
    /\ lastEvent = NoEvent

ApplyParse ==
    /\ ~parseOut.done
    /\ parseOut' = LET r == parseImage(parseIn)
                   IN  [done |-> TRUE, registry |-> r.registry,
                        repository |-> r.repository, tag |-> r.tag]
    /\ UNCHANGED <<selector, cluster, phase, pendingAdds, nEvents, monitorVars,
                   consumerVars, factories, lastEvent, selVars, parseIn, detVars, extractVars>>

SpecParse == InitParse /\ [][ApplyParse]_vars

\* The extra-label specification: extractExtraLabelValues applied to every
\* object metadata and every rule list of at most MaxRules rules.
InitExtract ==
    /\ extractIn \in [labels : MetaMaps, annotations : MetaMaps,
                       rules : RuleLists(MaxRules)]
    /\ extractOut = NoValues
    /\ extraLabels = <<>>
    /\ subscription = NoSubscription
    /\ store = NoWorkload
    /\ nDeliveries = 0
    /\ imageInfo = {}
    /\ imageChanges = EmptyBag
    /\ delivery = NoDelivery
    /\ parseIn = <<>>
    /\ parseOut = NoParse
    /\ selIn = NoSel
    /\ selOut = NoResult
    /\ selector = NoLabels
    /\ cluster = [name \in Namespaces |-> Absent]
    /\ phase = "listed"
    /\ pendingAdds = {}
    /\ nEvents = 0
    /\ monArr = <<>>
    /\ monLen = 0
    /\ nsChannel = <<>>
    /\ lastPublished = <<>>
    /\ pc = "init"
    /\ namespaces = NilSlice
    /\ idx = 1
    /\ currentSet = {}
    /\ activeInformers = [k \in {} |-> 0]
    /\ factories = <<>>
    /\ lastCall = NoCall
    /\ pass = NoPass
    /\ lastEvent = NoEvent

ApplyExtract ==
    /\ ~extractOut.done
    /\ extractOut' = [done |-> TRUE,
                      values |-> extractExtraLabelValues(extractIn, extractIn.rules)]
    /\ UNCHANGED <<lifecycleVars, selVars, parseVars, detVars, extractIn>>

SpecExtract == InitExtract /\ [][ApplyExtract]_vars

\* The change detector specification: one workload informer of a started
\* namespace and the notifications it hands to its handlers.
InitDetect ==
    /\ extraLabels \in ExtraLabelConfigs
    /\ subscription \in [ns : Namespaces, kind : Kinds]
    /\ store = NoWorkload
    /\ nDeliveries = 0
    /\ imageInfo = {}
    /\ imageChanges = EmptyBag
    /\ delivery = NoDelivery
    /\ extractIn = NoExtract
    /\ extractOut = NoValues
    /\ parseIn = <<>>
    /\ parseOut = NoParse
    /\ selIn = NoSel
    /\ selOut = NoResult
    /\ selector = NoLabels
    /\ cluster = [name \in Namespaces |-> Absent]
    /\ phase = "listed"
    /\ pendingAdds = {}
    /\ nEvents = 0
    /\ monArr = <<>>
    /\ monLen = 0
    /\ nsChannel = <<>>
    /\ lastPublished = <<>>
    /\ pc = "init"
    /\ namespaces = NilSlice
    /\ idx = 1
    /\ currentSet = {}
    /\ activeInformers = [k \in {} |-> 0]
    /\ factories = <<>>
    /\ lastCall = NoCall
    /\ pass = NoPass
    /\ lastEvent = NoEvent

NextDetect ==
    \/ SyncAdd
    \/ WorkloadAdded
    \/ WorkloadUpdated
    \/ WorkloadDeleted

SpecDetect == InitDetect /\ [][NextDetect]_vars

\* The rollout specification: a workload found at the initial
\* synchronization and rolled out up to MaxRollouts times.
NextRollout ==
    \/ SyncAdd
    \/ Rollout

SpecRollout == InitDetect /\ [][NextRollout]_vars

\* ------------------------------------------------------------------ claims

\* The informers of kind `kind` that watch namespace ns and have not ended.
LiveSubscriptions(ns, kind) ==
    {i \in 1..Len(factories) : factories[i].ns = ns /\ kind \in factories[i].live}

\* C1: at every instant and for every (partition, kind) pair at most one
\* watch subscription is live (started and not yet fully stopped).
C1_AtMostOneLive ==
    \A ns \in Namespaces, kind \in Kinds :
        Cardinality(LiveSubscriptions(ns, kind)) <= 1

\* Nothing is left for the monitor to deliver or for the consumer to drain.
Quiescent ==
    /\ phase = "running"
    /\ pendingAdds = {}
    /\ Len(nsChannel) = 0
    /\ pc = "recv"

\* C2: once the events have stopped and everything published has been
\* drained and reconciled, the active-subscription key set equals the
\* monitor's scope set.
C2_Converged == Quiescent => ActiveKeys = ScopeSet

\* C3: the snapshot waiting in the mailbox, the next one the consumer
\* receives, is the one published most recently.
C3_LatestWins ==
    Len(nsChannel) = 1 => Range(Contents(nsChannel[1])) = Range(lastPublished)

PassEnded == pc = "recv" /\ pass.n > 0

\* C4: a reconcile pass on active map A and snapshot D starts exactly D minus
\* keys(A), stops exactly keys(A) minus D, and ends with the active keys
\* equal to D.
C4_DiffAndConverge ==
    PassEnded =>
        /\ pass.started = pass.D \ pass.A
        /\ pass.stopped = pass.A \ pass.D
        /\ ActiveKeys = pass.D

\* C5: a pass whose snapshot is identical to the one last reconciled starts
\* nothing, stops nothing and leaves the active keys unchanged.
C5_Idempotent ==
    (PassEnded /\ pass.D = pass.prev) =>
        /\ pass.started = {}
        /\ pass.stopped = {}
        /\ ActiveKeys = pass.A

\* C6: no workload event is processed for a partition that a reconcile has
\* removed from the active map (and that has not re-entered it).
C6_NoEventAfterRemoval == ~lastEvent.removed

\* The selector is satisfied by the labels: every selector key is present
\* with exactly the required value.
Satisfies(labels, sel) ==
    \A key \in DOMAIN sel : key \in DOMAIN labels /\ labels[key] = sel[key]

\* C7: once notifications have been handled (none is pending), the scope set
\* is exactly the set of existing partitions whose labels satisfy the
\* selector.
C7_ScopeIsMatching ==
    (phase = "running" /\ pendingAdds = {} /\ lastCall.handler # "none") =>
        ScopeSet = {name \in Namespaces :
                       cluster[name].exists /\ Satisfies(cluster[name].labels, selector)}

\* C8: a notification that causes no membership transition of the scope set
\* publishes no snapshot.
C8_NoTransitionNoPublish == ~lastCall.transition => ~lastCall.sent

\* The slice headers held outside the monitor.
HeldHeaders ==
    Range(nsChannel) \cup (IF pc \in {"build", "start", "stop"} THEN {namespaces} ELSE {})

\* C9: a snapshot in the mailbox or being reconciled keeps the contents it
\* had when it was published.
C9_SnapshotImmutable == \A h \in HeldHeaders : Contents(h) = h.orig

\* C10: namespaceMatchesSelector(P, S) is true iff every key of S is present
\* among P's labels with exactly the required value.
C10_SelectorMatching ==
    selOut.done => (selOut.match <=> Satisfies(selIn.labels, selIn.sel))

\* The first "/" of the image, 0 when there is none.
FirstSlash(image) ==
    IF stringsContains(image, "/")
    THEN CHOOSE j \in 1..Len(image) :
             image[j] = "/" /\ \A k \in 1..(j - 1) : image[k] # "/"
    ELSE 0

IsWord(t) == t \notin {".", ":", "/"}

\* host:port/path without a tag: a registry host that carries a port,
\* followed by a repository path with no ":" in it.
PortRegistryNoTag(image) ==
    LET i == FirstSlash(image)
    IN  /\ i = 4
        /\ IsWord(image[1]) /\ image[2] = ":" /\ IsWord(image[3])
        /\ Len(image) > i
        /\ ~stringsContains(SubSeq(image, i + 1, Len(image)), ":")

\* C11: for an image whose registry host carries a port and that has no tag,
\* the registry is the host with its port, the repository is the rest of the
\* path and the tag is "latest".
C11_PortRegistry ==
    (parseOut.done /\ PortRegistryNoTag(parseIn)) =>
        LET i == FirstSlash(parseIn)
        IN  /\ parseOut.registry = SubSeq(parseIn, 1, i - 1)
            /\ parseOut.repository = SubSeq(parseIn, i + 1, Len(parseIn))
            /\ parseOut.tag = <<"latest">>

\* A registry host: no "/", words at both ends, and a "." or a ":" in it or
\* the word localhost.
ValidRegistry(r) ==
    /\ Len(r) > 0
    /\ ~stringsContains(r, "/")
    /\ IsWord(r[1]) /\ IsWord(r[Len(r)])
    /\ stringsContains(r, ".") \/ stringsContains(r, ":") \/ r = <<"localhost">>

ValidRepository(r) ==
    /\ Len(r) > 0
    /\ ~stringsContains(r, ":")
    /\ IsWord(r[1]) /\ IsWord(r[Len(r)])

ValidTag(t) ==
    /\ Len(t) > 0
    /\ ~stringsContains(t, ":") /\ ~stringsContains(t, "/")

\* C12: for every image string registry + "/" + repository + ":" + tag built
\* from a valid registry host, a non-empty repository path and a non-empty
\* tag, parseImage returns exactly (registry, repository, tag).
C12_RoundTrip ==
    parseOut.done =>
        \A i \in 1..Len(parseIn), j \in 1..Len(parseIn) :
            LET reg == SubSeq(parseIn, 1, i - 1)
                repo == SubSeq(parseIn, i + 1, j - 1)
                tag == SubSeq(parseIn, j + 1, Len(parseIn))
            IN  (/\ i < j /\ parseIn[i] = "/" /\ parseIn[j] = ":"
                 /\ ValidRegistry(reg) /\ ValidRepository(repo) /\ ValidTag(tag))
                => /\ parseOut.registry = reg
                   /\ parseOut.repository = repo
                   /\ parseOut.tag = tag

\* The calls of the last handler on each of the two metric vectors.
Observed == SelectSeq(delivery.log, LAMBDA e : e.metric = "sentinel_container_image_info")

Facts == SelectSeq(delivery.log, LAMBDA e : e.metric = "sentinel_image_changes_total")

NamesOf(containers) == {containers[i].name : i \in 1..Len(containers)}

ImageOf(containers, n) ==
    containers[CHOOSE i \in 1..Len(containers) : containers[i].name = n].image

\* The container names of both revisions of the last delivery whose image
\* strings differ.
ChangedNames ==
    {n \in NamesOf(delivery.old.containers) \cap NamesOf(delivery.new.containers) :
        ImageOf(delivery.old.containers, n) # ImageOf(delivery.new.containers, n)}

\* An update with a new resource version and a greater generation.
Qualifying ==
    /\ delivery.handler = "update"
    /\ delivery.new.resourceVersion # delivery.old.resourceVersion
    /\ delivery.new.generation > delivery.old.generation

StatusOnly ==
    /\ delivery.handler = "update"
    /\ delivery.new.generation <= delivery.old.generation

\* C13: an update whose new generation is not greater than the old one emits
\* nothing, neither an image change nor a container observation, whatever
\* the two container lists are.
C13_StatusOnlySilent == StatusOnly => delivery.log = <<>>

C13_Witness ==
    /\ StatusOnly
    /\ delivery.new.resourceVersion # delivery.old.resourceVersion
    /\ ChangedNames # {}
    /\ delivery.log = <<>>

\* C14: a qualifying update emits exactly one image change per container
\* name of both revisions whose image strings differ, with the tags parsed
\* from the old and the new image, and no other image change.
C14_ExactChanges ==
    Qualifying =>
        /\ Len(Facts) = Cardinality(ChangedNames)
        /\ \A n \in ChangedNames :
              Cardinality({i \in 1..Len(Facts) :
                  Facts[i].labels =
                      <<subscription.ns, subscription.kind, delivery.new.name, n,
                        parseImage(ImageOf(delivery.old.containers, n)).tag,
                        parseImage(ImageOf(delivery.new.containers, n)).tag>>}) = 1

C14_Witness ==
    /\ Qualifying
    /\ Len(Facts) = 1
    /\ Facts[1].labels[5] = <<"1">> /\ Facts[1].labels[6] = <<"2">>
    /\ NamesOf(delivery.new.containers) # NamesOf(delivery.old.containers)

\* C15: every image change emitted has an old tag different from its new tag.
C15_TagsDiffer ==
    \A i \in 1..Len(Facts) : Facts[i].labels[5] # Facts[i].labels[6]

\* C16: an update whose resource version equals the old one is dropped
\* before anything else: it emits nothing, even with a greater generation
\* and other images, for each of the three kinds.
C16_SameVersionDropped ==
    (delivery.handler = "update"
        /\ delivery.new.resourceVersion = delivery.old.resourceVersion) =>
        /\ delivery.log = <<>>
        /\ delivery.retracted = {} /\ delivery.recounted = {}

C16_Witness ==
    /\ delivery.handler = "update"
    /\ delivery.new.resourceVersion = delivery.old.resourceVersion
    /\ delivery.new.generation > delivery.old.generation
    /\ ChangedNames # {}
    /\ subscription.kind = "DaemonSet"
    /\ delivery.log = <<>>

\* C17: every add, the adds of the initial synchronization included, emits
\* one container observation per container of the workload, and no image
\* change.
C17_AddObservesEach ==
    delivery.handler = "add" =>
        /\ Facts = <<>>
        /\ Len(Observed) = Len(delivery.new.containers)
        /\ \A i \in 1..Len(Observed) :
              Observed[i].labels[4] = delivery.new.containers[i].name

C17_Witness ==
    /\ delivery.handler = "add"
    /\ delivery.synthetic
    /\ Len(delivery.new.containers) = 2
    /\ Len(Observed) = 2

\* C18: a qualifying update emits one container observation for each
\* container of the new revision, with the new image string and the
\* registry, repository and tag parsed from it.
C18_UpdateObservesEach ==
    Qualifying =>
        /\ Len(Observed) = Len(delivery.new.containers)
        /\ \A i \in 1..Len(Observed) :
              LET c == delivery.new.containers[i]
                  p == parseImage(c.image)
              IN  SubSeq(Observed[i].labels, 1, 8) =
                      <<subscription.ns, subscription.kind, delivery.new.name, c.name,
                        c.image, p.registry, p.repository, p.tag>>

C18_Witness ==
    /\ Qualifying
    /\ Len(Observed) = 2
    /\ ChangedNames # {}
    /\ NamesOf(delivery.new.containers) \ NamesOf(delivery.old.containers) # {}
    /\ \E i \in 1..2 : Observed[i].labels[8] # <<"latest">>

\* C19: after a qualifying update changed the image of a container, no
\* series of that workload and container carries the old image.
C19_OldSeriesGone ==
    Qualifying =>
        \A n \in ChangedNames :
            ~\E l \in imageInfo :
                /\ SubSeq(l, 1, 4) =
                       <<subscription.ns, subscription.kind, delivery.new.name, n>>
                /\ l[5] = ImageOf(delivery.old.containers, n)

\* C20: a delete retracts nothing: the series observed before and the image
\* change counts are the same after it.
C20_DeleteRetractsNothing ==
    delivery.handler = "delete" =>
        /\ delivery.retracted = {}
        /\ delivery.recounted = {}
        /\ delivery.log = <<>>

C20_Witness ==
    /\ delivery.handler = "delete"
    /\ delivery.old.containers # <<>>
    /\ \E l \in imageInfo : l[3] = delivery.old.name

\* C21: a namespace whose informers had failed to start when a pass began,
\* and that the pass still finds in its snapshot, has its informers started
\* again by that pass.
C21_FailedStartRetried ==
    PassEnded => \A ns \in pass.failed \cap pass.D : ns \in pass.started

\* C24: when the initial List of the namespaces has failed, no snapshot is
\* ever published, no pass runs, no informer is started, and AppDiscovery
\* stays waiting on its channel.
C24_ListFailureStartsNothing ==
    phase = "failed" =>
        /\ nsChannel = <<>> /\ lastPublished = <<>> /\ lastCall = NoCall
        /\ pass = NoPass /\ factories = <<>> /\ activeInformers = [k \in {} |-> 0]
        /\ pc = "recv"

C24_Witness ==
    /\ phase = "failed"
    /\ nEvents = MaxEvents
    /\ \E name \in Namespaces :
          cluster[name].exists /\ namespaceMatchesSelector(NsObject(name, cluster[name]), selector)

\* C22: while the monitor runs, a snapshot is put in nsChannel again and
\* again, also when no namespace notification arrives any more.
C22_Heartbeat == []<>(phase = "running" => Len(nsChannel) = 1)

\* Some informer is live whose factory is not the one the active map holds
\* for its namespace.
Leaking ==
    \E i \in 1..Len(factories) :
        /\ factories[i].live # {}
        /\ ~(factories[i].ns \in ActiveKeys /\ activeInformers[factories[i].ns] = i)

\* C27: the informers of a namespace whose subscriptions were cancelled all
\* end: whenever some live informer is outside the active map, later none
\* is, and once the scope changes are over none is ever again.
C27_NoLeak == (Leaking ~> ~Leaking) /\ <>[]~Leaking

C27_Witness ==
    \E i \in 1..Len(factories) : factories[i].closed > 0 /\ factories[i].live = {}

\* The first pass has read its snapshot.
FirstSnapshotRead == pass.n = 1 /\ pass.prev = {"-"} /\ pc \in {"start", "stop"}

\* C23: the first snapshot AppDiscovery reconciles is the one sent right
\* after the initial List, and what it reads from it is exactly the
\* namespaces that List returned.
C23_FirstSnapshotIsInitialList ==
    /\ (phase \in {"listed", "running"} /\ pass.n = 0) => Len(nsChannel) = 1
    /\ FirstSnapshotRead => currentSet = Range(namespaces.orig)

\* Factory i is the one the active map holds for its namespace.
IsActive(i) ==
    /\ factories[i].ns \in ActiveKeys
    /\ activeInformers[factories[i].ns] = i

\* C26: the stop loop leaves every namespace still in currentSet as it was:
\* its entry in the active map, its stop channel and its live informers;
\* and it leaves alone every factory stopped before.
C26_StopIsScoped ==
    [][(pc = "stop" /\ pc' = "recv") =>
          \A i \in 1..Len(factories) :
              (factories[i].ns \in currentSet \/ ~IsActive(i)) =>
                  /\ factories'[i] = factories[i]
                  /\ IsActive(i) =>
                        /\ factories[i].ns \in DOMAIN activeInformers'
                        /\ activeInformers'[factories[i].ns] = i]_vars

C26_Witness ==
    /\ pc = "recv"
    /\ pass.stopped # {}
    /\ \E i \in 1..Len(factories) :
          IsActive(i) /\ factories[i].closed = 0 /\ factories[i].live = Kinds

\* The critical section of a pass: between mu.Lock() and mu.Unlock()
\* (app_discovery.go:62, 196).
InCriticalSection == pc \in {"start", "stop"}

\* C28: a snapshot is taken from nsChannel only when no pass is in progress,
\* and the active map changes only in a step of the critical section.
C28_Serialized ==
    [][/\ Len(nsChannel') < Len(nsChannel) => pc = "recv"
       /\ activeInformers' # activeInformers => InCriticalSection]_vars

C28_Witness ==
    /\ pc = "stop"
    /\ pass.started # {}
    /\ Len(nsChannel) = 1

\* The value a rule asks for: the annotation or the label of its key, ""
\* when the key is absent or the source type is unknown.
RuleValue(in, rule) ==
    IF rule.Type = "annotation"
    THEN IF rule.Key \in DOMAIN in.annotations THEN in.annotations[rule.Key] ELSE ""
    ELSE IF rule.Type = "label"
    THEN IF rule.Key \in DOMAIN in.labels THEN in.labels[rule.Key] ELSE ""
    ELSE ""

\* C25: extractExtraLabelValues returns one value per rule, in the order of
\* the rules: the annotation or label value of the rule's key, "" when the
\* key is absent, "" when the source type is neither annotation nor label.
C25_OneValuePerRule ==
    extractOut.done =>
        /\ Len(extractOut.values) = Len(extractIn.rules)
        /\ \A i \in 1..Len(extractIn.rules) :
              extractOut.values[i] = RuleValue(extractIn, extractIn.rules[i])

C25_Witness ==
    /\ extractOut.done
    /\ Len(extractIn.rules) = 2
    /\ extractIn.rules[1].Type = "env"
    /\ extractIn.rules[1].Key \in DOMAIN extractIn.labels
    /\ extractIn.labels[extractIn.rules[1].Key] = "core"
    /\ extractIn.rules[2].Type = "annotation"
    /\ extractIn.rules[2].Key \notin DOMAIN extractIn.annotations
    /\ extractOut.values = <<"", "">>

\* The labels of the image change of container n in the last delivery.
ChangeKey(n) ==
    <<subscription.ns, subscription.kind, delivery.new.name, n,
      parseImage(ImageOf(delivery.old.containers, n)).tag,
      parseImage(ImageOf(delivery.new.containers, n)).tag>>

\* C29: every qualifying update in which the image string of a container
\* of both revisions differs adds exactly one to the count of its image
\* change, whatever the count was: the changes of successive updates add up.
C29_EveryChangeCounts ==
    Qualifying =>
        \A n \in ChangedNames :
            /\ CopiesIn(ChangeKey(n), delivery.added) = 1
            /\ CopiesIn(ChangeKey(n), imageChanges) >= 1

C29_Witness ==
    /\ Qualifying
    /\ \E n \in ChangedNames :
          /\ CopiesIn(ChangeKey(n), imageChanges) = 2
          /\ ChangeKey(n)[5] # ChangeKey(n)[6]

\* The position of the last occurrence of sep in s after position from,
\* or 0 when there is none.
LastIndexAfter(s, sep, from) ==
    IF \E i \in (from + 1)..Len(s) : s[i] = sep
    THEN CHOOSE i \in (from + 1)..Len(s) :
             s[i] = sep /\ \A k \in (i + 1)..Len(s) : s[k] # sep
    ELSE 0

\* The tag separator of an image string: the last ":" after the last "/".
TagColon(s) == LastIndexAfter(s, ":", LastIndexAfter(s, "/", 0))

\* The path of an image string: the string without its tag.
PathOf(s) == IF TagColon(s) = 0 THEN s ELSE SubSeq(s, 1, TagColon(s) - 1)

\* C30: parseImage fills defaults: the tag is latest when the string has no
\* tag; a path without "/" is a docker.io repository; a first path segment
\* with "." or ":" or equal to localhost is the registry and the rest the
\* repository; otherwise the registry is docker.io and the repository is
\* the whole path.
C30_Defaults ==
    parseOut.done =>
        LET path == PathOf(parseIn)
            segs == stringsSplitN2(path, "/")
        IN  /\ TagColon(parseIn) = 0 => parseOut.tag = <<"latest">>
            /\ Len(segs) = 1 =>
                   /\ parseOut.registry = <<"docker", ".", "io">>
                   /\ parseOut.repository = path
            /\ (/\ Len(segs) = 2
                /\ \/ stringsContains(segs[1], ".")
                   \/ stringsContains(segs[1], ":")
                   \/ segs[1] = <<"localhost">>) =>
                   /\ parseOut.registry = segs[1]
                   /\ parseOut.repository = segs[2]
            /\ (/\ Len(segs) = 2
                /\ ~stringsContains(segs[1], ".")
                /\ ~stringsContains(segs[1], ":")
                /\ segs[1] # <<"localhost">>) =>
                   /\ parseOut.registry = <<"docker", ".", "io">>
                   /\ parseOut.repository = path

\* C31: the scope list of the monitor never holds the same namespace name
\* twice.
C31_ScopeListDistinct ==
    \A i \in 1..monLen, j \in 1..monLen : i # j => monArr[i] # monArr[j]

\* C32: a reconcile pass leaves the informers of every namespace that was
\* active when the pass began and is in the snapshot it received as they
\* were: the entry stays in the active map, the stop channel is not closed
\* and no new informers are started for it.
C32_ActiveAndDesiredUntouched ==
    PassEnded =>
        \A ns \in pass.A \cap pass.D :
            /\ ns \notin pass.stopped
            /\ ns \notin pass.started
            /\ ns \in ActiveKeys
            /\ factories[activeInformers[ns]].closed = 0

\* C33: no stop channel is closed twice, and a pass closes the stop channel
\* only of namespaces absent from the snapshot it received.
C33_StopOnceAndOnlyAbsent ==
    /\ \A i \in 1..Len(factories) : factories[i].closed <= 1
    /\ PassEnded => pass.stopped \cap pass.D = {}

\* A step in which the informer calls a namespace handler.
HandlerStep == pendingAdds' # pendingAdds \/ (phase = "running" /\ nEvents' # nEvents)

\* C34: nsChannel never holds more than one snapshot, and a namespace
\* handler never waits for AppDiscovery: with the slot full it can run
\* whenever the informer has a notification, and its call ends with the
\* waiting snapshot still in the slot and nothing sent.
C34_OneSlotNeverBlocks ==
    [][/\ Len(nsChannel) <= 1
       /\ Len(nsChannel') <= 1
       /\ (Len(nsChannel) = 1 /\ phase = "running" /\ pendingAdds # {}) =>
              ENABLED InitialAdd
       /\ (Len(nsChannel) = 1 /\ EventsFlow /\ \E name \in Namespaces : ~cluster[name].exists) =>
              ENABLED NsCreated
       /\ (Len(nsChannel) = 1 /\ EventsFlow /\ \E name \in Namespaces : cluster[name].exists) =>
              (ENABLED NsUpdated /\ ENABLED NsDeleted)
       /\ (HandlerStep /\ Len(nsChannel) = 1) =>
              /\ ~lastCall'.sent
              /\ Len(nsChannel') = 1
              /\ nsChannel'[1].orig = nsChannel[1].orig]_vars

C34_Witness ==
    /\ lastCall.attempted
    /\ ~lastCall.sent
    /\ Len(nsChannel) = 1
    /\ lastPublished # nsChannel[1].orig

\* The informers of ns whose stop channel is open.
OpenInformers(ns) ==
    {i \in 1..Len(factories) : factories[i].ns = ns /\ factories[i].closed = 0}

\* The snapshot the pass is reading lists a namespace twice.
ListedTwice(ns) ==
    \E i \in 1..namespaces.len, j \in 1..namespaces.len :
        i # j /\ Elem(namespaces, i) = ns /\ Elem(namespaces, j) = ns

\* C35: however often a snapshot lists a namespace, at most one set of
\* informers is started and open for it, and it is the one entry of the
\* active map for that namespace.
C35_OneInformerPerNamespace ==
    \A ns \in Namespaces :
        /\ Cardinality(OpenInformers(ns)) <= 1
        /\ ns \in ActiveKeys => OpenInformers(ns) = {activeInformers[ns]}

C35_Witness ==
    /\ pc = "stop"
    /\ \E ns \in pass.started :
          /\ ListedTwice(ns)
          /\ OpenInformers(ns) = {activeInformers[ns]}

ValueOf(e, labelName) ==
    LET names == BuildMetrics(extraLabels)
    IN  e.labels[CHOOSE k \in 1..Len(names) : names[k] = labelName]

\* C37: every container observation carries 8 + n label values, n the
\* number of configured rules, as many as SentinelContainerImageInfo has
\* label names: under the base names the namespace, kind, workload name,
\* container name, image, registry, repository and tag, and under the
\* name of every rule the value that rule extracts.
C37_LabelValuesMatchNames ==
    \A i \in 1..Len(Observed) :
        LET e == Observed[i]
            c == delivery.new.containers[i]
            p == parseImage(c.image)
        IN  /\ Len(e.labels) = 8 + Len(extraLabels)
            /\ Len(e.labels) = Len(BuildMetrics(extraLabels))
            /\ ValueOf(e, "workload_namespace") = subscription.ns
            /\ ValueOf(e, "workload_type") = subscription.kind
            /\ ValueOf(e, "workload_name") = delivery.new.name
            /\ ValueOf(e, "container_name") = c.name
            /\ ValueOf(e, "image") = c.image
            /\ ValueOf(e, "image_registry") = p.registry
            /\ ValueOf(e, "image_repository") = p.repository
            /\ ValueOf(e, "image_tag") = p.tag
            /\ \A k \in 1..Len(extraLabels) :
                  /\ e.labels[8 + k] = RuleValue(delivery.new, extraLabels[k])
                  /\ ValueOf(e, extraLabels[k].TimeseriesLabelName) = e.labels[8 + k]

C37_Witness ==
    /\ Len(Observed) = 2
    /\ Len(extraLabels) = 3
    /\ Len(Observed[1].labels) = 11
    /\ Observed[1].labels[9] = "core"
    /\ Observed[1].labels[11] = ""

====
